---- MODULE Spec2Model ----
(***************************************************************************)
(* Model of tbot's remote shell synchronization protocol                   *)
(* (tbot/machine/shell_utils.py) and of the machine abstraction on top of  *)
(* it (tbot-legacy/machine/machine.py).                                    *)
(*                                                                         *)
(* Text is a sequence of one-character strings.  The transport channel is  *)
(* the environment: what the remote side wrote and the client has not yet  *)
(* received is `wire`; recv hands out any non-empty prefix of it, so every *)
(* way of dividing a response across reads is a behaviour of the model.    *)
(***************************************************************************)
EXTENDS Integers, Sequences, FiniteSets, TLC

NL == "\n"
CR == "\r"

(***************************************************************************)
(* Bounds of the model.                                                    *)
(***************************************************************************)
\* longest output the remote writes in answer to one command
MaxOut == 2
\* longest text the remote writes for a read_to_prompt called on its own
MaxText == 4
\* most bytes an earlier call may have left unread for a new call to begin
MaxLeftover == 2
\* longest name, text or string of a Special
MaxName == 3
\* most calls of resolve_string on one Special
MaxResolves == 2

(***************************************************************************)
(* Python string primitives, computed the way CPython computes them.       *)
(***************************************************************************)
Min(a, b) == IF a < b THEN a ELSE b
Max(a, b) == IF a > b THEN a ELSE b

\* a slice bound as CPython adjusts it: negative counts from the end, then
\* clamped into 0..len
PyIndex(n, k) == IF k < 0 THEN Max(0, n + k) ELSE Min(k, n)

\* s[i:j]
PySlice(s, i, j) ==
    LET lo == PyIndex(Len(s), i)
        hi == PyIndex(Len(s), j)
    IN  IF hi <= lo THEN <<>> ELSE SubSeq(s, lo + 1, hi)

\* s[i:]
PySliceFrom(s, i) ==
    LET lo == PyIndex(Len(s), i)
    IN  IF Len(s) <= lo THEN <<>> ELSE SubSeq(s, lo + 1, Len(s))

\* c in s
Contains(s, c) == \E i \in 1..Len(s) : s[i] = c

\* s.split("\n")[0]
RECURSIVE FirstLine(_)
FirstLine(s) ==
    IF s = <<>> \/ Head(s) = NL THEN <<>>
    ELSE <<Head(s)>> \o FirstLine(Tail(s))

\* s.replace("\r\n", "\n"): left to right, non-overlapping
RECURSIVE ReplaceCRLF(_)
ReplaceCRLF(s) ==
    IF s = <<>> THEN <<>>
    ELSE IF Len(s) >= 2 /\ s[1] = CR /\ s[2] = NL
         THEN <<NL>> \o ReplaceCRLF(SubSeq(s, 3, Len(s)))
         ELSE <<Head(s)>> \o ReplaceCRLF(Tail(s))

\* s.replace("\r", "\n")
ReplaceCR(s) == [i \in 1..Len(s) |-> IF s[i] = CR THEN NL ELSE s[i]]

\* s.strip(): leading and trailing whitespace removed
IsSpace(c) == c \in {" ", NL, CR, "\t"}

RECURSIVE LStrip(_)
LStrip(s) == IF s # <<>> /\ IsSpace(Head(s)) THEN LStrip(Tail(s)) ELSE s

RECURSIVE RStrip(_)
RStrip(s) ==
    IF s # <<>> /\ IsSpace(s[Len(s)]) THEN RStrip(SubSeq(s, 1, Len(s) - 1)) ELSE s

Strip(s) == RStrip(LStrip(s))

Digits == <<"0", "1", "2", "3", "4", "5", "6", "7", "8", "9">>
IsDigit(c) == \E i \in 1..10 : Digits[i] = c
DigitVal(c) == (CHOOSE i \in 1..10 : Digits[i] = c) - 1

\* int(s) succeeds on a non-empty run of decimal digits (the only numerals the
\* modelled channel alphabet can spell); anything else raises ValueError
IsNumeral(s) == s # <<>> /\ \A i \in 1..Len(s) : IsDigit(s[i])

RECURSIVE IntOf(_)
IntOf(s) ==
    IF s = <<>> THEN 0
    ELSE 10 * IntOf(SubSeq(s, 1, Len(s) - 1)) + DigitVal(s[Len(s)])

(***************************************************************************)
(* Regular expressions, as far as prompts need them: a pattern is a        *)
(* sequence of tokens, each a character class taken once ("one"), one or   *)
(* more times ("plus") or any number of times ("star"); w is the number of *)
(* characters the token takes in the pattern's text, so that the sum of    *)
(* the w is len(prompt).                                                   *)
(***************************************************************************)
RECURSIVE PatternLen(_)
PatternLen(pat) == IF pat = <<>> THEN 0 ELSE Head(pat).w + PatternLen(Tail(pat))

\* the tokens pat[k..] match exactly the characters s[i+1..e]
RECURSIVE MatchFrom(_, _, _, _, _)
MatchFrom(pat, k, s, i, e) ==
    IF k > Len(pat) THEN i = e
    ELSE LET t == pat[k]
             run(j) == \A m \in (i + 1)..j : s[m] \in t.cls
         IN  CASE t.rep = "one"  -> /\ i < e
                                    /\ s[i + 1] \in t.cls
                                    /\ MatchFrom(pat, k + 1, s, i + 1, e)
               [] t.rep = "plus" -> \E j \in (i + 1)..e :
                                        run(j) /\ MatchFrom(pat, k + 1, s, j, e)
               [] t.rep = "star" -> \E j \in i..e :
                                        run(j) /\ MatchFrom(pat, k + 1, s, j, e)

\* the positions where Python's "$" matches: the end of the string, and just
\* before a newline that is the string's last character
DollarEnds(s) ==
    {Len(s)} \cup (IF s # <<>> /\ s[Len(s)] = NL THEN {Len(s) - 1} ELSE {})

\* re.search(f"{pat}$", s) is not None
SearchAtEnd(pat, s) ==
    \E e \in DollarEnds(s) : \E i \in 0..e : MatchFrom(pat, 1, s, i, e)

(***************************************************************************)
(* The session's inputs.                                                   *)
(***************************************************************************)
\* characters the remote's output is made of: the two characters of the
\* prompt (one of them a letter) and the two line-ending characters
OutChars == {"a", "$", NL, CR}

\* the sentinel injected as PS1, and the pattern prompt a+\$ of a session that
\* synchronizes on a regular expression
Prompt == <<"a", "$">>
PromptPattern ==
    << [cls |-> {"a"}, rep |-> "plus", w |-> 2],
       [cls |-> {"$"}, rep |-> "one",  w |-> 2] >>

SeqsUpTo(S, n) == UNION {[1..k -> S] : k \in 0..n}
Outs == SeqsUpTo(OutChars, MaxOut)
Texts == SeqsUpTo(OutChars, MaxText)

CmdLs     == <<"l", "s">>
CmdMulti  == <<"l", NL, "s">>
EchoStatus == <<"e", "c", "h", "o", " ", "$", "?">>
Commands  == {CmdLs, CmdMulti}

\* a pty ends a line with "\r\n", a plain pipe with "\n"
LineEnds == {<<NL>>, <<CR, NL>>}
\* what a shell prints for "echo $?"
StatusOuts == {<<"0", CR, NL>>, <<"1", NL>>}

\* the operator's answers to the interactive confirmation
Answers == {<<>>, <<"Y">>, <<"y">>, <<"n">>, <<"N", "o">>}

\* the (log_show, log_show_stdout) pairs the callers of exec pass
ShowFlags == {<<TRUE, TRUE>>, <<FALSE, TRUE>>}

MachineName == <<"labhost", "noenv">>

(***************************************************************************)
(* State.                                                                  *)
(***************************************************************************)
VARIABLES
    \* the transport channel
    wire,          \* bytes the remote wrote that recv has not handed out yet
    eof,           \* the channel is closed: recv on an empty wire returns b""
    exitReady,     \* chan.exit_status_ready()
    \* control
    pc,            \* the program's position
    stack,         \* the labels the calls in progress return to
    op,            \* the top-level call in progress or last finished
    \* arguments and locals
    command,       \* exec_command's command
    sinkOn,        \* stdout_handler is not None
    regex,         \* read_to_prompt's prompt_regex
    buf,           \* read_to_prompt's buf
    last_newline,  \* read_to_prompt's last_newline
    stdout1,       \* command_and_retval's stdout
    interactive,   \* Machine._interactive
    \* results
    ret,           \* the text the last callee returned
    retcode,       \* the return code of a (retcode, stdout) pair, -1 if none
    error,         \* the exception that ended the top-level call, or "none"
    \* what the collaborators observed during the current top-level call
    ioLog,         \* sends and read loops on the channel, in order
    recvd,         \* chan.recv was called
    sinkLog,       \* the lines printed to the stdout handler
    events,        \* the shell_command events emitted
    messages,      \* number of tbot.log.message calls
    dispatched,    \* Machine._exec was invoked
    inputs,        \* the lines input() read from the operator
    args,          \* the arguments of the top-level call
    \* bookkeeping of the last round trip, for stating the claims
    resp,          \* the command sent and the answer the remote wrote for it
    rtpEnd,        \* how the last read loop ended: "prompt", "closed", "none"
    \* objects outside the shell session
    special,       \* a Special argument value: an Env, a Raw or a _Static
    resolved,      \* what the calls of its resolve_string returned, in order
    config,        \* tb.config as MachineManager.__init__ found it
    conn,          \* the conn argument of MachineManager.__init__
    connection,    \* MachineManager.connection and how it was obtained
    machines       \* the MachineManager's own dict: machine name -> Machine

chanVars == <<wire, eof, exitReady>>
vars == <<wire, eof, exitReady, pc, stack, op, command, sinkOn, regex,
          buf, last_newline, stdout1, interactive, ret, retcode, error, ioLog,
          recvd, sinkLog, events, messages, dispatched, inputs, args, resp,
          rtpEnd, special, resolved, config, conn, connection, machines>>

\* the objects outside the shell session
objVars == <<special, resolved, config, conn, connection, machines>>

\* the shell session and the machine that uses it
sessionVars == <<wire, eof, exitReady, pc, stack, op, command, sinkOn, regex,
                 buf, last_newline, stdout1, interactive, ret, retcode, error,
                 ioLog, recvd, sinkLog, events, messages, dispatched, inputs,
                 args, resp, rtpEnd>>

\* no Special constructed yet
NoSpecial == [class |-> "none", value |-> <<>>]

\* no MachineManager constructed yet
NoConnection == [client |-> "none", host_keys |-> FALSE, connected |-> FALSE,
                 hostname |-> "none", kwargs |-> {}]
NoManager == [made |-> FALSE, items |-> {}]

NoResp == [cmd |-> <<>>, eol |-> <<>>, out |-> <<>>, clean |-> FALSE]
NoArgs == [cmd |-> <<>>, sink |-> FALSE, show |-> FALSE, show_stdout |-> FALSE]

Init ==
    /\ wire = <<>> /\ eof = FALSE /\ exitReady = FALSE
    /\ pc = "idle" /\ stack = <<>> /\ op = "none"
    /\ command = <<>> /\ sinkOn = FALSE /\ regex = FALSE
    /\ buf = <<>> /\ last_newline = 0 /\ stdout1 = <<>>
    /\ interactive = FALSE
    /\ ret = <<>> /\ retcode = -1 /\ error = "none"
    /\ ioLog = <<>> /\ recvd = FALSE /\ sinkLog = <<>>
    /\ events = <<>> /\ messages = 0 /\ dispatched = FALSE
    /\ inputs = <<>> /\ args = NoArgs
    /\ resp = NoResp /\ rtpEnd = "none"
    /\ special = NoSpecial /\ resolved = <<>>
    /\ config = {} /\ conn = "None"
    /\ connection = NoConnection /\ machines = NoManager

(***************************************************************************)
(* read_to_prompt: the body of one iteration of its loop.                  *)
(***************************************************************************)
\* the line endings fixed without the last replace: a bare "\r" stays
NormalizeNoBareCR(data) == ReplaceCRLF(ReplaceCRLF(data))

\* the chunk's line endings fixed: "\r\n" replaced twice, then bare "\r"
Normalize(data) == ReplaceCR(ReplaceCRLF(ReplaceCRLF(data)))

\* the inner while loop without its test of last_newline != 0
RECURSIVE EmitLinesWithFirst(_, _)
EmitLinesWithFirst(b, ln) ==
    IF Contains(PySliceFrom(b, ln), NL)
    THEN LET line == FirstLine(PySliceFrom(b, ln))
             more == EmitLinesWithFirst(b, ln + Len(line) + 1)
         IN  [ln |-> more.ln, lines |-> <<line>> \o more.lines]
    ELSE [ln |-> ln, lines |-> <<>>]

\* the inner while loop: every completed line from the cursor on is printed,
\* except the one that starts at cursor 0; gives the new cursor and the lines
RECURSIVE EmitLines(_, _)
EmitLines(b, ln) ==
    IF Contains(PySliceFrom(b, ln), NL)
    THEN LET line == FirstLine(PySliceFrom(b, ln))
             more == EmitLines(b, ln + Len(line) + 1)
         IN  [ln    |-> more.ln,
              lines |-> (IF ln # 0 THEN <<line>> ELSE <<>>) \o more.lines]
    ELSE [ln |-> ln, lines |-> <<>>]

\* len(prompt): of the literal, or of the pattern's text
PromptLen(rx) == IF rx THEN PatternLen(PromptPattern) ELSE Len(Prompt)

\* an exit test that finds the literal prompt anywhere in the buffer
PromptFoundAnywhere(b, rx) ==
    \/ ~rx /\ \E i \in 1..(Len(b) - Len(Prompt) + 1) :
                  SubSeq(b, i, i + Len(Prompt) - 1) = Prompt
    \/ rx /\ SearchAtEnd(PromptPattern, b)

\* the loop's exit test
PromptFound(b, rx) ==
    \/ ~rx /\ PySliceFrom(b, -PromptLen(rx)) = Prompt
    \/ rx /\ SearchAtEnd(PromptPattern, b)

\* "Print rest of last line": the lines (none or one) printed on exit
FlushLine(b, ln, rx) ==
    IF ~Contains(PySliceFrom(b, ln), NL)
    THEN LET line == PySlice(b, ln, -PromptLen(rx))
         IN  IF line # <<>> THEN <<line>> ELSE <<>>
    ELSE <<>>

\* the check with the test of the chunk turned around
ChannelClosedOnData(data, exited) == data # <<>> /\ exited

\* "Check if the channel has been closed"
ChannelClosed(data, exited) == data = <<>> /\ exited

IoSend(data) == [ev |-> "send", data |-> data, sink |-> FALSE]
IoRead(sink) == [ev |-> "read", data |-> <<>>, sink |-> sink]
IoRet        == [ev |-> "ret",  data |-> <<>>, sink |-> FALSE]

\* one pass through the loop body with the bytes recv returned
ReadLoopBody(chunk) ==
    LET data   == Normalize(chunk)
        b      == buf \o data
        em     == IF sinkOn THEN EmitLines(b, last_newline)
                  ELSE [ln |-> last_newline, lines |-> <<>>]
        found  == PromptFound(b, regex)
        fl     == IF found /\ sinkOn THEN FlushLine(b, em.ln, regex) ELSE <<>>
        closed == ~found /\ ChannelClosed(data, exitReady)
    IN  /\ buf' = b
        /\ last_newline' = em.ln
        /\ sinkLog' = sinkLog \o em.lines \o fl
        /\ recvd' = TRUE
        /\ IF found \/ closed
           THEN /\ pc' = Head(stack)
                /\ stack' = Tail(stack)
                /\ ret' = b
                /\ rtpEnd' = IF found THEN "prompt" ELSE "closed"
                /\ ioLog' = Append(ioLog, IoRet)
           ELSE UNCHANGED <<pc, stack, ret, rtpEnd, ioLog>>

\* chan.recv returned the first n bytes of what had arrived
RecvData(n) ==
    /\ pc = "rtp"
    /\ n \in 1..Len(wire)
    /\ wire' = SubSeq(wire, n + 1, Len(wire))
    /\ ReadLoopBody(SubSeq(wire, 1, n))
    /\ UNCHANGED <<eof, exitReady, op, command, sinkOn, regex, stdout1,
                   interactive, objVars, retcode, error, events, messages, dispatched,
                   inputs, args, resp>>

\* chan.recv returned b"": nothing is left and the channel is closed
RecvEOF ==
    /\ pc = "rtp"
    /\ wire = <<>>
    /\ eof
    /\ ReadLoopBody(<<>>)
    /\ UNCHANGED <<wire, eof, exitReady, op, command, sinkOn, regex,
                   stdout1, interactive, objVars, retcode, error, events, messages,
                   dispatched, inputs, args, resp>>

(***************************************************************************)
(* exec_command and command_and_retval.                                    *)
(***************************************************************************)
Raise(e) ==
    /\ pc' = "done"
    /\ stack' = <<>>
    /\ error' = e
    /\ ret' = <<>>
    /\ retcode' = -1

\* exec_command with its two validations in the other order
ExecCommandGuardChannelFirst(cmd, exited) ==
    IF exited THEN "InvalidChannelState"
    ELSE IF Contains(cmd, NL) THEN "InvalidCommand"
    ELSE "none"

\* exec_command without the check of the channel
ExecCommandGuardNoChannelCheck(cmd, exited) ==
    IF Contains(cmd, NL) THEN "InvalidCommand" ELSE "none"

\* the two validations, in the order exec_command makes them
ExecCommandGuard(cmd, exited) ==
    IF Contains(cmd, NL) THEN "InvalidCommand"
    ELSE IF exited THEN "InvalidChannelState"
    ELSE "none"

ExecCommandCheck ==
    /\ pc = "ec_check"
    /\ IF ExecCommandGuard(command, exitReady) # "none"
       THEN Raise(ExecCommandGuard(command, exitReady))
       ELSE /\ pc' = "ec_send"
            /\ UNCHANGED <<stack, error, ret, retcode>>
    /\ UNCHANGED <<chanVars, op, command, sinkOn, regex, buf,
                   last_newline, stdout1, interactive, objVars, ioLog, recvd, sinkLog,
                   events, messages, dispatched, inputs, args, resp,
                   rtpEnd>>

\* what a shell writes in answer to a command line
RespOuts(cmd) == IF cmd = EchoStatus THEN StatusOuts ELSE Outs

\* chan.send(f"{command}\n"), and read_to_prompt entered.  A shell that is
\* still running answers with the echoed line, the command's output and the
\* prompt; a closed channel refuses the send.
ExecCommandSend(eol, out) ==
    /\ pc = "ec_send"
    /\ IF eof
       THEN /\ Raise("SocketError")
            /\ UNCHANGED <<wire, ioLog, resp, buf, last_newline>>
       ELSE /\ ioLog' = ioLog \o <<IoSend(command \o <<NL>>), IoRead(sinkOn)>>
            /\ wire' = IF exitReady THEN wire
                       ELSE wire \o command \o eol \o out \o Prompt
            /\ resp' = IF exitReady THEN [NoResp EXCEPT !.cmd = command]
                       ELSE [cmd |-> command, eol |-> eol, out |-> out,
                             clean |-> wire = <<>>]
            /\ buf' = <<>>
            /\ last_newline' = 0
            /\ pc' = "rtp"
            /\ stack' = <<"ec_slice">> \o stack
            /\ UNCHANGED <<error, ret, retcode>>
    /\ UNCHANGED <<eof, exitReady, op, command, sinkOn, regex, stdout1,
                   interactive, objVars, recvd, sinkLog, events, messages, dispatched,
                   inputs, args, rtpEnd>>

\* a slice that cuts the prompt off and leaves the echoed command line
StripPromptOnly(text, cmd) == PySlice(text, 0, -Len(Prompt))

\* [len(command) + 1 : -len(prompt)]
StripEchoAndPrompt(text, cmd) == PySlice(text, Len(cmd) + 1, -Len(Prompt))

ExecCommandSlice ==
    /\ pc = "ec_slice"
    /\ ret' = StripEchoAndPrompt(ret, command)
    /\ pc' = Head(stack)
    /\ stack' = Tail(stack)
    /\ UNCHANGED <<chanVars, op, command, sinkOn, regex, buf,
                   last_newline, stdout1, interactive, objVars, retcode, error, ioLog,
                   recvd, sinkLog, events, messages, dispatched, inputs, args,
                   resp, rtpEnd>>

\* the second exec_command given the caller's stdout handler
RetvalQueryWithSink(sink) == [command |-> EchoStatus, sink |-> sink]

\* the second exec_command's arguments: the command and the stdout handler
RetvalQuery(sink) == [command |-> EchoStatus, sink |-> FALSE]

\* command_and_retval between its two exec_command calls
CommandAndRetvalSecond ==
    /\ pc = "cr_second"
    /\ stdout1' = ret
    /\ command' = RetvalQuery(sinkOn).command
    /\ sinkOn' = RetvalQuery(sinkOn).sink
    /\ pc' = "ec_check"
    /\ stack' = <<"cr_int">> \o stack
    /\ UNCHANGED <<chanVars, op, regex, buf, last_newline, interactive, objVars,
                   ret, retcode, error, ioLog, recvd, sinkLog, events, messages,
                   dispatched, inputs, args, resp, rtpEnd>>

\* retcode = int(... .strip()); return retcode, stdout
CommandAndRetvalInt ==
    /\ pc = "cr_int"
    /\ IF IsNumeral(Strip(ret))
       THEN /\ retcode' = IntOf(Strip(ret))
            /\ ret' = stdout1
            /\ pc' = Head(stack)
            /\ stack' = Tail(stack)
            /\ UNCHANGED error
       ELSE Raise("ValueError")
    /\ UNCHANGED <<chanVars, op, command, sinkOn, regex, buf,
                   last_newline, stdout1, interactive, objVars, ioLog, recvd, sinkLog,
                   events, messages, dispatched, inputs, args, resp,
                   rtpEnd>>

(***************************************************************************)
(* Machine.exec, over a dispatch primitive backed by command_and_retval.   *)
(***************************************************************************)
UpperCase == <<"A", "B", "C", "D", "E", "F", "G", "H", "I", "J", "K", "L", "M",
               "N", "O", "P", "Q", "R", "S", "T", "U", "V", "W", "X", "Y", "Z">>
LowerCase == <<"a", "b", "c", "d", "e", "f", "g", "h", "i", "j", "k", "l", "m",
               "n", "o", "p", "q", "r", "s", "t", "u", "v", "w", "x", "y", "z">>

\* s.lower()
Lower(s) ==
    [i \in 1..Len(s) |->
        IF \E k \in 1..26 : UpperCase[k] = s[i]
        THEN LowerCase[CHOOSE k \in 1..26 : UpperCase[k] = s[i]]
        ELSE s[i]]

\* only the answer "n" (in either case) skips the command
DeclinedOnlyN(answer) == Lower(answer) = <<"n">>

\* an empty answer skips the command as well
DeclinedOrEmpty(answer) == Lower(answer) = <<>> \/ Lower(answer)[1] # "y"

\* the operator's answer skips the command
Declined(answer) == Lower(answer) # <<>> /\ Lower(answer)[1] # "y"

\* tbot.log_events.shell_command(...): the event as first emitted
ShellCommandEvent(cmd, show, show_stdout) ==
    [machine |-> MachineName, command |-> cmd, show |-> show,
     show_stdout |-> show_stdout, exit_code |-> -1]

\* the frames of the dispatch primitive _exec(command, stdout_handler): a
\* command_and_retval on the machine's channel
Dispatch == <<"cr_second">>

\* a top-level call begins: what the previous one left behind is cleared
StartCall(o, a) ==
    /\ pc \in {"idle", "done"}
    /\ Len(wire) <= MaxLeftover
    /\ op' = o
    /\ args' = a
    /\ error' = "none"
    /\ ioLog' = <<>> /\ recvd' = FALSE /\ sinkLog' = <<>>
    /\ buf' = <<>> /\ last_newline' = 0 /\ stdout1' = <<>>
    /\ resp' = NoResp /\ rtpEnd' = "none"

CallExecCommand(cmd, sink) ==
    /\ StartCall("exec_command", [NoArgs EXCEPT !.cmd = cmd, !.sink = sink])
    /\ command' = cmd /\ sinkOn' = sink /\ regex' = FALSE
    /\ pc' = "ec_check"
    /\ stack' = <<"done">>
    /\ events' = <<>> /\ messages' = 0 /\ dispatched' = FALSE /\ inputs' = <<>>
    /\ ret' = <<>> /\ retcode' = -1
    /\ UNCHANGED <<chanVars, interactive, objVars>>

CallCommandAndRetval(cmd, sink) ==
    /\ StartCall("command_and_retval", [NoArgs EXCEPT !.cmd = cmd, !.sink = sink])
    /\ command' = cmd /\ sinkOn' = sink /\ regex' = FALSE
    /\ pc' = "ec_check"
    /\ stack' = <<"cr_second", "done">>
    /\ events' = <<>> /\ messages' = 0 /\ dispatched' = FALSE /\ inputs' = <<>>
    /\ ret' = <<>> /\ retcode' = -1
    /\ UNCHANGED <<chanVars, interactive, objVars>>

\* read_to_prompt called on its own, for a literal or a pattern prompt, on a
\* channel with nothing pending (bytes left pending and bytes the remote
\* writes next are the same to the loop)
CallReadToPrompt(rx, sink) ==
    /\ wire = <<>>
    /\ StartCall("read_to_prompt", [NoArgs EXCEPT !.sink = sink])
    /\ command' = <<>> /\ sinkOn' = sink /\ regex' = rx
    /\ pc' = "rtp"
    /\ stack' = <<"done">>
    /\ events' = <<>> /\ messages' = 0 /\ dispatched' = FALSE /\ inputs' = <<>>
    /\ ret' = <<>> /\ retcode' = -1
    /\ UNCHANGED <<chanVars, interactive, objVars>>

\* Machine.exec up to the dispatch: the confirmation, the event, _exec entered;
\* o is the call it is made for and rest is where it returns to
ExecEntered(o, rest, cmd, show, show_stdout, answer) ==
    /\ StartCall(o, [cmd |-> cmd, sink |-> TRUE, show |-> show,
                     show_stdout |-> show_stdout])
    /\ command' = cmd /\ sinkOn' = TRUE /\ regex' = FALSE
    /\ inputs' = IF interactive THEN <<answer>> ELSE <<>>
    /\ IF interactive /\ Declined(answer)
       THEN /\ messages' = 1
            /\ events' = <<>>
            /\ dispatched' = FALSE
            /\ retcode' = 0 /\ ret' = <<>>
            /\ pc' = Head(rest)
            /\ stack' = Tail(rest)
       ELSE /\ messages' = 0
            /\ events' = <<ShellCommandEvent(cmd, show, show_stdout)>>
            /\ dispatched' = TRUE
            /\ retcode' = -1 /\ ret' = <<>>
            /\ pc' = "ec_check"
            /\ stack' = Dispatch \o <<"exec_record">> \o rest
    /\ UNCHANGED <<chanVars, interactive, objVars>>

MachineExec(cmd, show, show_stdout, answer) ==
    ExecEntered("exec", <<"done">>, cmd, show, show_stdout, answer)

\* ret = self.exec(command, **kwargs)
MachineExec0(cmd, show, show_stdout, answer) ==
    ExecEntered("exec0", <<"exec0_assert", "done">>, cmd, show, show_stdout, answer)

\* stdout_handler.dct["exit_code"] = ret[0]; return ret
MachineExecRecord ==
    /\ pc = "exec_record"
    /\ events' = [events EXCEPT ![Len(events)].exit_code = retcode]
    /\ pc' = Head(stack)
    /\ stack' = Tail(stack)
    /\ UNCHANGED <<chanVars, op, command, sinkOn, regex, buf,
                   last_newline, stdout1, interactive, objVars, ret, retcode, error,
                   ioLog, recvd, sinkLog, messages, dispatched, inputs, args,
                   resp, rtpEnd>>

\* the interpreter runs assert statements, or was started with -O and has
\* compiled them away
AssertModes == {"checked", "stripped"}

\* assert ret[0] == 0, f'Command "{command}" failed:\n{ret[1]}'; return ret[1]
MachineExec0Assert ==
    /\ pc = "exec0_assert"
    /\ \E mode \in AssertModes :
          IF mode = "checked" /\ retcode # 0
          THEN Raise("AssertionError")
          ELSE /\ pc' = Head(stack)
               /\ stack' = Tail(stack)
               /\ UNCHANGED <<ret, retcode, error>>
    /\ UNCHANGED <<chanVars, op, command, sinkOn, regex, buf,
                   last_newline, stdout1, interactive, objVars,
                   ioLog, recvd, sinkLog, events, messages, dispatched, inputs,
                   args, resp, rtpEnd>>

(***************************************************************************)
(* The remote side.                                                        *)
(***************************************************************************)
progVars == <<pc, stack, op, command, sinkOn, regex, buf, last_newline,
              stdout1, interactive, objVars, ret, retcode, error, ioLog, recvd, sinkLog,
              events, messages, dispatched, inputs, args, rtpEnd>>

\* The program looks at the channel in four places: exec_command's check
\* reads the exit status, the send finds the channel open or closed, recv
\* takes bytes, and the read loop reads the exit status after an empty read.
\* What the remote does while the program computes, or between two calls,
\* shows only at the next of these places, and there the model lets it act.
AtChannel == pc \in {"idle", "ec_check", "ec_send", "rtp"}

\* output arrives for a read_to_prompt that was called on its own, or by
\* setup_channel
RemoteEmit(text) ==
    /\ pc = "rtp" /\ op \in {"read_to_prompt", "setup_channel"}
    /\ resp = NoResp
    /\ ~eof /\ ~exitReady
    /\ text # <<>>
    /\ wire' = wire \o text
    /\ resp' = [NoResp EXCEPT !.out = text, !.clean = (wire = <<>>)]
    /\ UNCHANGED <<eof, exitReady, progVars>>

\* the remote process exits: its exit status arrives
RemoteExit ==
    /\ ~exitReady
    /\ AtChannel
    /\ pc = "rtp" => wire = <<>>
    /\ exitReady' = TRUE
    /\ UNCHANGED <<wire, eof, resp, progVars>>

\* the channel closes; the bytes not yet received never come.  (Bytes that
\* do arrive before a close are the ones a read has already taken: every
\* point at which the stream can break off is the end of some read.)
RemoteClose ==
    /\ ~eof
    /\ AtChannel
    /\ eof' = TRUE
    /\ wire' = <<>>
    /\ resp' = [resp EXCEPT !.clean = resp.clean /\ wire = <<>>]
    /\ UNCHANGED <<exitReady, progVars>>

\* the program's steps inside exec_command and command_and_retval
ProgramStep ==
    \/ ExecCommandCheck
    \/ \E eol \in LineEnds : \E out \in RespOuts(command) : ExecCommandSend(eol, out)
    \/ \E n \in 1..Len(wire) : RecvData(n)
    \/ RecvEOF
    \/ ExecCommandSlice
    \/ CommandAndRetvalSecond
    \/ CommandAndRetvalInt

\* the remote's steps on a shell session
RemoteStep ==
    \/ RemoteExit
    \/ RemoteClose

\* a session driven through exec_command and command_and_retval
Next ==
    \/ \E cmd \in Commands, sink \in BOOLEAN : CallExecCommand(cmd, sink)
    \/ \E cmd \in Commands, sink \in BOOLEAN : CallCommandAndRetval(cmd, sink)
    \/ ProgramStep
    \/ RemoteStep

Spec == Init /\ [][Next]_vars

\* read_to_prompt on its own, on whatever the remote writes
NextRead ==
    \/ \E rx \in BOOLEAN, sink \in BOOLEAN : CallReadToPrompt(rx, sink)
    \/ \E n \in 1..Len(wire) : RecvData(n)
    \/ RecvEOF
    \/ \E text \in Texts : RemoteEmit(text)
    \/ RemoteStep

SpecRead == Init /\ [][NextRead]_vars

\* a machine driven through Machine.exec, interactive or not
InitMachine ==
    /\ wire = <<>> /\ eof = FALSE /\ exitReady = FALSE
    /\ pc = "idle" /\ stack = <<>> /\ op = "none"
    /\ command = <<>> /\ sinkOn = FALSE /\ regex = FALSE
    /\ buf = <<>> /\ last_newline = 0 /\ stdout1 = <<>>
    /\ interactive \in BOOLEAN
    /\ ret = <<>> /\ retcode = -1 /\ error = "none"
    /\ ioLog = <<>> /\ recvd = FALSE /\ sinkLog = <<>>
    /\ events = <<>> /\ messages = 0 /\ dispatched = FALSE
    /\ inputs = <<>> /\ args = NoArgs
    /\ resp = NoResp /\ rtpEnd = "none"
    /\ special = NoSpecial /\ resolved = <<>>
    /\ config = {} /\ conn = "None"
    /\ connection = NoConnection /\ machines = NoManager

NextMachine ==
    \/ \E cmd \in Commands, show \in ShowFlags, answer \in Answers :
          MachineExec(cmd, show[1], show[2], answer)
    \/ \E cmd \in Commands, show \in ShowFlags, answer \in Answers :
          MachineExec0(cmd, show[1], show[2], answer)
    \/ MachineExecRecord
    \/ MachineExec0Assert
    \/ ProgramStep
    \/ RemoteStep

SpecMachine == InitMachine /\ [][NextMachine]_vars

\* the lines setup_channel sends to the new shell
SetupScript ==
    <<"unset HISTFILE", NL, "PROMPT_COMMAND=''", NL, "PS1='">> \o Prompt \o <<"'", NL>>

\* setup_channel is called: the pty and the shell are asked for
CallSetupChannel ==
    /\ wire = <<>>
    /\ StartCall("setup_channel", NoArgs)
    /\ command' = <<>> /\ sinkOn' = FALSE /\ regex' = FALSE
    /\ events' = <<>> /\ messages' = 0 /\ dispatched' = FALSE /\ inputs' = <<>>
    /\ ret' = <<>> /\ retcode' = -1
    /\ pc' = "setup_send"
    /\ stack' = <<"done">>
    /\ UNCHANGED <<chanVars, interactive, objVars>>

\* chan.send of the script, then read_to_prompt(chan, prompt); a closed
\* channel refuses the send
SetupChannelSend ==
    /\ pc = "setup_send"
    /\ IF eof
       THEN /\ Raise("SocketError")
            /\ UNCHANGED ioLog
       ELSE /\ ioLog' = ioLog \o <<IoSend(SetupScript), IoRead(FALSE)>>
            /\ pc' = "rtp"
            /\ stack' = <<"setup_ret">> \o stack
            /\ UNCHANGED <<error, ret, retcode>>
    /\ UNCHANGED <<chanVars, op, command, sinkOn, regex, buf,
                   last_newline, stdout1, interactive, objVars,
                   recvd, sinkLog, events, messages, dispatched, inputs,
                   args, resp, rtpEnd>>

\* read_to_prompt's result is dropped and setup_channel returns None
SetupChannelReturn ==
    /\ pc = "setup_ret"
    /\ ret' = <<>>
    /\ pc' = Head(stack)
    /\ stack' = Tail(stack)
    /\ UNCHANGED <<chanVars, op, command, sinkOn, regex, buf,
                   last_newline, stdout1, interactive, objVars, retcode, error,
                   ioLog, recvd, sinkLog, events, messages, dispatched, inputs,
                   args, resp, rtpEnd>>

\* setup_channel on whatever the new shell writes
NextSetup ==
    \/ CallSetupChannel
    \/ SetupChannelSend
    \/ SetupChannelReturn
    \/ \E n \in 1..Len(wire) : RecvData(n)
    \/ RecvEOF
    \/ \E text \in Texts : RemoteEmit(text)
    \/ RemoteStep

SpecSetup == Init /\ [][NextSetup]_vars

(***************************************************************************)
(* Special argument values (board/special.py).                             *)
(***************************************************************************)
\* the characters of names and texts: a letter and the three characters the
\* Env form is built from
SpecialChars == {"a", "$", "{", "}"}
SpecialTexts == SeqsUpTo(SpecialChars, MaxName)
SpecialClasses == {"Env", "Raw", "_Static"}

\* Env(name), Raw(text), _Static(string): the one slot is set
NewSpecial(class, value) ==
    /\ special' = [class |-> class, value |-> value]
    /\ resolved' = <<>>
    /\ UNCHANGED <<sessionVars, config, conn, connection, machines>>

\* Env.resolve_string without the braces
resolve_string_bare(self) ==
    IF self.class = "Env" THEN <<"$">> \o self.value
    ELSE self.value

\* Env: f"${{{self.name}}}"; Raw: self.text; _Static: self.string
resolve_string(self) ==
    IF self.class = "Env" THEN <<"$", "{">> \o self.value \o <<"}">>
    ELSE self.value

\* one more call of resolve_string on the same object
ResolveString ==
    /\ special # NoSpecial
    /\ Len(resolved) < MaxResolves
    /\ resolved' = Append(resolved, resolve_string(special))
    /\ UNCHANGED <<sessionVars, special, config, conn, connection, machines>>

NextSpecial ==
    \/ \E class \in SpecialClasses, value \in SpecialTexts : NewSpecial(class, value)
    \/ ResolveString

SpecSpecial == Init /\ [][NextSpecial]_vars

(***************************************************************************)
(* MachineManager (machine.py).                                            *)
(***************************************************************************)
KWARGS_LIST ==
    << <<"lab.port", "port">>,
       <<"lab.user", "username">>,
       <<"lab.password", "password">>,
       <<"lab.keyfile", "key_filename">> >>

\* Python values: None, a str, an int, a pathlib.Path
None == [type |-> "NoneType", text |-> ""]
PyStr(t) == [type |-> "str", text |-> t]
PyInt(t) == [type |-> "int", text |-> t]
PyPath(t) == [type |-> "Path", text |-> t]

\* str(value) of a str or a Path
PyStrOf(v) == [type |-> "str", text |-> v.text]

\* stands for a key the configuration does not hold
Absent == [type |-> "absent", text |-> ""]

\* the values each option has in the configurations tried
OptionValues(key) ==
    CASE key = "lab.port"     -> {Absent, None, PyInt("22")}
      [] key = "lab.user"     -> {Absent, PyStr("root")}
      [] key = "lab.password" -> {Absent, PyStr(""), PyStr("pw")}
      [] key = "lab.keyfile"  -> {Absent, PyPath("id_rsa"), PyStr("id_rsa")}
      [] key = "lab.hostname" -> {PyStr("lab1"), PyStr("lab2")}

ConfigKeys == {"lab.port", "lab.user", "lab.password", "lab.keyfile", "lab.hostname"}

\* a configuration: the set of its (key, value) items
Configs ==
    { {<<k, f[k]>> : k \in {x \in ConfigKeys : f[x] # Absent}} :
        f \in {g \in [ConfigKeys -> UNION {OptionValues(k) : k \in ConfigKeys}] :
                  \A k \in ConfigKeys : g[k] \in OptionValues(k)} }

\* tb.config[key, default]
ConfigGet(cfg, key, default) ==
    IF \E item \in cfg : item[1] = key
    THEN (CHOOSE item \in cfg : item[1] = key)[2]
    ELSE default

\* a filter that lets every pair through
KeepAll(arg) == TRUE

\* lambda arg: arg[1] is not None
NotNone(arg) == arg[2] # None

\* dict(filter(..., map(lambda arg: (arg[1], tb.config[arg[0], None]), KWARGS_LIST)))
\* with "key_filename" passed through str()
ConnectKwargs(cfg) ==
    LET mapped == {<<KWARGS_LIST[i][2], ConfigGet(cfg, KWARGS_LIST[i][1], None)>> :
                      i \in 1..Len(KWARGS_LIST)}
        kwargs == {arg \in mapped : NotNone(arg)}
    IN  {IF arg[1] = "key_filename" THEN <<arg[1], PyStrOf(arg[2])>> ELSE arg :
            arg \in kwargs}

\* the conn argument: None or a paramiko.SSHClient the caller made
Conns == {"None", "SSHClient"}

\* MachineManager(tb, conn)
MachineManagerInit(cfg, c) ==
    /\ config' = cfg
    /\ conn' = c
    /\ connection' =
          IF c = "SSHClient"
          THEN [NoConnection EXCEPT !.client = "given"]
          ELSE [client |-> "new", host_keys |-> TRUE, connected |-> TRUE,
                hostname |-> ConfigGet(cfg, "lab.hostname", None).text,
                kwargs |-> ConnectKwargs(cfg)]
    /\ machines' = [made |-> TRUE, items |-> {}]
    /\ UNCHANGED <<sessionVars, special, resolved>>

NextManager == \E cfg \in Configs, c \in Conns : MachineManagerInit(cfg, c)

SpecManager == Init /\ [][NextManager]_vars

(***************************************************************************)
(* Claims.                                                                 *)
(***************************************************************************)
IsPrefix(s, t) == Len(s) <= Len(t) /\ SubSeq(t, 1, Len(s)) = s

\* the text has the prompt at its end and nowhere else
PromptOnlyAtEnd(text) ==
    /\ PySliceFrom(text, -Len(Prompt)) = Prompt
    /\ \A i \in 1..(Len(text) - Len(Prompt)) :
           SubSeq(text, i, i + Len(Prompt) - 1) # Prompt

\* the call is one of shell_utils' two command functions, given a command
\* with a line feed in it
NewlineCall ==
    op \in {"exec_command", "command_and_retval"} /\ Contains(args.cmd, NL)

\* C1: a command that contains a "\n" makes exec_command fail with
\* InvalidCommand, whether the channel is open or closed, and the call has
\* then neither sent anything on the channel nor read from it.
C1_InvalidCommandBeforeIO ==
    NewlineCall =>
        /\ pc \in {"ec_check", "done"}
        /\ ioLog = <<>>
        /\ ~recvd
        /\ pc = "done" => error = "InvalidCommand"

C1_Witness ==
    /\ NewlineCall
    /\ pc = "done"
    /\ error = "InvalidCommand"
    /\ exitReady /\ eof

\* C2: exec_command's check of a newline-free command on a channel whose
\* exit status is ready ends the call with InvalidChannelState, and that step
\* neither sends nor reads; a call of exec_command that ended with
\* InvalidChannelState has done no I/O at all.
C2_InvalidChannelStateBeforeIO ==
    /\ [][(pc = "ec_check" /\ pc' # pc /\ ~Contains(command, NL) /\ exitReady)
            => /\ pc' = "done"
               /\ error' = "InvalidChannelState"
               /\ UNCHANGED <<wire, eof, exitReady, ioLog, recvd>>]_vars
    /\ []((op = "exec_command" /\ error = "InvalidChannelState")
            => (ioLog = <<>> /\ ~recvd))

C2_Witness ==
    /\ pc = "done"
    /\ op = "exec_command"
    /\ error = "InvalidChannelState"
    /\ ~Contains(args.cmd, NL)

\* C3: exec_command on an open channel with nothing pending, answered by the
\* echoed command line, an output and the prompt (which occurs nowhere else
\* in the answer), returns that output, with its line endings as "\n",
\* however the answer is divided across reads.
C3_ExactOutput ==
    (/\ pc = "done"
     /\ op = "exec_command"
     /\ error = "none"
     /\ rtpEnd = "prompt"
     /\ resp.clean
     /\ PromptOnlyAtEnd(resp.cmd \o resp.eol \o resp.out \o Prompt))
    => ret = Normalize(resp.out)

\* the channel traffic of one command_and_retval
TwoRoundTrips(cmd, sink) ==
    << IoSend(cmd \o <<NL>>), IoRead(sink), IoRet,
       IoSend(EchoStatus \o <<NL>>), IoRead(FALSE), IoRet >>

\* C4 as stated: every call of command_and_retval has, when it ends, made
\* exactly the two round trips.
C4_EveryCallTwoRoundTrips ==
    (pc = "done" /\ op = "command_and_retval")
    => ioLog = TwoRoundTrips(args.cmd, args.sink)

\* C4 as amended: what a command_and_retval has done on the channel is at any
\* time an initial part of: send the command, read with the caller's sink,
\* send "echo $?", read with no sink; a call that returns has done all of it,
\* and returns the first round trip's output with the integer that the
\* second one read.
C4_TwoRoundTrips ==
    op = "command_and_retval" =>
        /\ IsPrefix(ioLog, TwoRoundTrips(args.cmd, args.sink))
        /\ (pc = "done" /\ error = "none") =>
              /\ ioLog = TwoRoundTrips(args.cmd, args.sink)
              /\ ret = stdout1
              /\ IsNumeral(Strip(StripEchoAndPrompt(buf, EchoStatus)))
              /\ retcode = IntOf(Strip(StripEchoAndPrompt(buf, EchoStatus)))

C4_Witness ==
    /\ pc = "done"
    /\ op = "command_and_retval"
    /\ error = "none"
    /\ args.sink
    /\ retcode = 1
    /\ ret # <<>>

\* the lines of the text that a "\n" completes, in order
RECURSIVE CompleteLines(_)
CompleteLines(b) ==
    IF Contains(b, NL)
    THEN <<FirstLine(b)>> \o CompleteLines(PySliceFrom(b, Len(FirstLine(b)) + 1))
    ELSE <<>>

\* the completed lines but the first
LaterLines(b) == IF CompleteLines(b) = <<>> THEN <<>> ELSE Tail(CompleteLines(b))

\* the place of the last "\n" of the text, 0 if it has none
LastNewline(b) ==
    IF Contains(b, NL) THEN CHOOSE i \in 1..Len(b) :
                                b[i] = NL /\ \A j \in (i + 1)..Len(b) : b[j] # NL
    ELSE 0

ReadCall == op = "read_to_prompt"

\* recv returns when the channel has bytes or has reached its end, so the
\* read loop's own step is taken whenever it stays possible
SpecReadFair == SpecRead /\ WF_vars(RecvEOF \/ \E n \in 1..MaxText : RecvData(n))

\* C5: in the read loop, a read that yields no bytes on a channel whose exit
\* status is ready can be taken, and it ends the loop at once: read_to_prompt
\* returns the buffer accumulated so far, unchanged, and raises nothing; so
\* a loop on such a channel comes to its end.
C5_ClosedChannelReturnsBuffer ==
    /\ (ReadCall /\ pc = "rtp" /\ eof /\ exitReady) ~> (pc = "done" /\ rtpEnd = "closed")
    /\ []((pc = "rtp" /\ wire = <<>> /\ eof /\ exitReady) => ENABLED RecvEOF)
    /\ [][(pc = "rtp" /\ wire = <<>> /\ eof /\ exitReady)
            => /\ pc' = Head(stack)
               /\ ret' = buf
               /\ buf' = buf
               /\ sinkLog' = sinkLog
               /\ rtpEnd' = "closed"
               /\ error' = "none"]_vars

C5_Witness ==
    /\ ReadCall
    /\ pc = "done"
    /\ rtpEnd = "closed"
    /\ error = "none"
    /\ ret # <<>>
    /\ ret = buf

\* C6: with a sink, while the loop runs the sink has received exactly the
\* completed lines of the buffer but the first, each once and in order, and
\* no part of the unterminated last line; the cursor is the place of the
\* buffer's last "\n" (0 if none), so never past the end.  When the loop has
\* ended, at most the one flushed line follows them.
C6_CompletedLinesOnce ==
    (ReadCall /\ sinkOn) =>
        /\ last_newline = LastNewline(buf)
        /\ last_newline <= Len(buf)
        /\ pc = "rtp" => sinkLog = LaterLines(buf)
        /\ pc = "done" => /\ IsPrefix(LaterLines(buf), sinkLog)
                          /\ Len(sinkLog) <= Len(LaterLines(buf)) + 1

C6_Witness ==
    /\ ReadCall /\ sinkOn
    /\ pc = "rtp"
    /\ Len(CompleteLines(buf)) >= 3
    /\ Len(sinkLog) = 2
    /\ last_newline < Len(buf)

\* where the prompt begins in a buffer the loop ended on: the literal's
\* length before the end, or where the pattern's leftmost match begins
PromptStart(b, rx) ==
    IF rx
    THEN CHOOSE i \in 0..Len(b) :
            /\ \E e \in DollarEnds(b) : MatchFrom(PromptPattern, 1, b, i, e)
            /\ \A j \in 0..(i - 1) :
                   ~\E e \in DollarEnds(b) : MatchFrom(PromptPattern, 1, b, j, e)
    ELSE Len(b) - Len(Prompt)

\* the unterminated text after the last completed line, up to the prompt
BeforePrompt(b, rx) ==
    IF PromptStart(b, rx) > LastNewline(b)
    THEN SubSeq(b, LastNewline(b) + 1, PromptStart(b, rx))
    ELSE <<>>

\* C7: when the loop ends on the prompt and a sink is supplied, the sink has
\* received, after the completed lines, the unterminated text in front of the
\* prompt once, and nothing if that text is empty; for a literal prompt and
\* for a pattern prompt, where the prompt is the text the pattern matched.
C7_FlushBeforePrompt ==
    (ReadCall /\ sinkOn /\ pc = "done" /\ rtpEnd = "prompt") =>
        sinkLog = LaterLines(buf) \o
                  (IF BeforePrompt(buf, regex) # <<>>
                   THEN <<BeforePrompt(buf, regex)>> ELSE <<>>)

\* the pattern matches a part of the text that reaches its end
MatchesAtEnd(b) == \E i \in 0..Len(b) : MatchFrom(PromptPattern, 1, b, i, Len(b))

\* C8: in pattern mode the loop ends on the prompt exactly when the pattern
\* matches at the end of the buffer: it has ended only on a buffer whose end
\* the pattern matches, and it runs on only while the buffer's end is not
\* matched.
C8_PatternAnchoredAtEnd ==
    (ReadCall /\ regex) =>
        /\ (pc = "done" /\ rtpEnd = "prompt") => MatchesAtEnd(buf)
        /\ (pc = "rtp" /\ recvd) => ~MatchesAtEnd(buf)

\* the characters of the text that are no line endings
Letters(s) == SelectSeq(s, LAMBDA c : c \notin {CR, NL})

\* C9: the buffer never holds a "\r"; what a read appends to it is free of
\* "\r", is left as it is by a second normalization, and has the characters
\* of the chunk that are no line endings, in order.
C9_NoCarriageReturn ==
    /\ [](~Contains(buf, CR) /\ Normalize(buf) = buf)
    /\ [][(pc = "rtp" /\ eof' = eof /\ Len(wire') < Len(wire))
            => LET chunk == SubSeq(wire, 1, Len(wire) - Len(wire'))
                   data  == PySliceFrom(buf', Len(buf))
               IN  /\ buf' = buf \o data
                   /\ ~Contains(data, CR)
                   /\ Normalize(data) = data
                   /\ Letters(data) = Letters(chunk)
                   /\ Contains(chunk, CR) => Contains(data, NL)]_vars

C9_Witness ==
    /\ ReadCall
    /\ pc = "rtp"
    /\ wire = <<>>
    /\ resp.out = <<CR, "a", CR, NL>>
    /\ buf = <<NL, "a", NL>>

\* C10: on a machine in interactive mode, when the operator answers "n" or
\* "No", exec returns (0, "") and has not invoked the dispatch primitive,
\* sent or read anything on the channel, or emitted an execution event.
C10_DeclineSkipsDispatch ==
    (op = "exec" /\ interactive /\ inputs # <<>>
        /\ inputs[1] \in {<<"n">>, <<"N", "o">>})
    => /\ pc = "done"
       /\ error = "none"
       /\ retcode = 0
       /\ ret = <<>>
       /\ ~dispatched
       /\ ioLog = <<>>
       /\ ~recvd
       /\ events = <<>>

C10_Witness ==
    /\ op = "exec"
    /\ interactive
    /\ inputs = << <<"n">> >>
    /\ pc = "done"
    /\ retcode = 0
    /\ messages = 1

\* an exec call that went past the confirmation
Dispatched == op = "exec" /\ dispatched

\* C11: for every exec call that is not declined, the execution event
\* (machine path, command, visibility flags) exists before anything of the
\* dispatch reaches the channel, and when the call has ended, whatever way
\* the dispatch ended, that event carries the exit code.
C11_EventCarriesExitCode ==
    Dispatched =>
        /\ Len(events) = 1
        /\ events[1].machine = MachineName
        /\ events[1].command = args.cmd
        /\ events[1].show = args.show
        /\ events[1].show_stdout = args.show_stdout
        /\ pc = "done" => events[1].exit_code # -1

\* an exec0 call whose exec went past the confirmation and has ended
Exec0Ended == op = "exec0" /\ dispatched /\ pc = "done"

\* C12: exec0 makes one exec call; when that call gave a non-zero exit code,
\* exec0 ends with an error and gives no output back, and when it gave zero,
\* exec0 gives back exec's output and ends with no error.
C12_NonZeroExitFails ==
    (Exec0Ended /\ Len(events) = 1 /\ events[1].exit_code # -1) =>
        IF events[1].exit_code = 0
        THEN error = "none" /\ retcode = 0
        ELSE error # "none" /\ ret = <<>>

\* C13: setup_channel returns normally only when its read loop ended on the
\* prompt; a channel that closed before the prompt was seen makes it end
\* with an error.
C13_SetupFailsOnClose ==
    (op = "setup_channel" /\ pc = "done" /\ error = "none") => rtpEnd = "prompt"

\* C14: every call of resolve_string gives "${" + name + "}" for an Env,
\* the text for a Raw and the string for a _Static, so two calls on the same
\* value give the same string; and a call leaves the value as it was.
C14_ResolveRepeatable ==
    /\ [](\A i \in 1..Len(resolved) :
            /\ special.class = "Env"
                 => resolved[i] = <<"$", "{">> \o special.value \o <<"}">>
            /\ special.class \in {"Raw", "_Static"}
                 => resolved[i] = special.value
            /\ resolved[i] = resolved[1])
    /\ [][Len(resolved') > Len(resolved) => special' = special]_vars

C14_Witness ==
    /\ special = [class |-> "Env", value |-> <<"a", "}">>]
    /\ resolved = << <<"$", "{", "a", "}", "}">>, <<"$", "{", "a", "}", "}">> >>

\* the options of the configuration that have a value
Configured ==
    {item[1] : item \in {i \in config : i[2] # None}}
        \cap {"lab.port", "lab.user", "lab.password", "lab.keyfile"}

\* the connect parameter an option is passed as
ParamOf(key) ==
    CASE key = "lab.port" -> "port"
      [] key = "lab.user" -> "username"
      [] key = "lab.password" -> "password"
      [] key = "lab.keyfile" -> "key_filename"

\* C15: a manager that made its own transport has passed to connect exactly
\* the parameters of the options the configuration has a value for, each
\* with that value (the key file as a string) and none of them null; a
\* manager given a transport handle holds that handle and has connected
\* nothing; either way its registry of machines is empty.
C15_OnlyConfiguredOptionsPassed ==
    machines.made =>
        /\ machines.items = {}
        /\ conn = "SSHClient" => connection = [NoConnection EXCEPT !.client = "given"]
        /\ conn = "None" =>
              /\ connection.client = "new"
              /\ connection.connected
              /\ {arg[1] : arg \in connection.kwargs} = {ParamOf(k) : k \in Configured}
              /\ Cardinality(connection.kwargs) = Cardinality(Configured)
              /\ \A arg \in connection.kwargs : arg[2] # None
              /\ \A item \in config :
                    item[1] \in Configured =>
                        \E arg \in connection.kwargs :
                            /\ arg[1] = ParamOf(item[1])
                            /\ arg[2].text = item[2].text
                            /\ arg[2].type = IF item[1] = "lab.keyfile"
                                             THEN "str" ELSE item[2].type

C15_Witness ==
    /\ machines.made
    /\ conn = "None"
    /\ <<"lab.port", None>> \in config
    /\ <<"lab.keyfile", PyPath("id_rsa")>> \in config
    /\ ~\E item \in config : item[1] = "lab.user"
    /\ connection.kwargs = {<<"key_filename", PyStr("id_rsa")>>}

\* all that the remote wrote for this read_to_prompt has been read
AllRead == ReadCall /\ resp # NoResp /\ resp.clean /\ wire = <<>>

\* C16: when the whole stream has been read, the buffer is the stream with
\* its line endings normalized as one piece, however the reads divided it:
\* a "\r\n" whose two bytes came in two reads is one "\n" in the buffer.
C16_ReadBoundariesDoNotMatter ==
    AllRead => buf = Normalize(resp.out)

\* the text ends with the literal prompt
EndsWithPrompt(b) ==
    Len(b) >= Len(Prompt) /\ SubSeq(b, Len(b) - Len(Prompt) + 1, Len(b)) = Prompt

LiteralCall == ReadCall /\ ~regex

\* C17: in literal mode each read appends its normalized chunk to the
\* buffer; the loop ends only on a buffer whose tail is the prompt or on a
\* read of no bytes with the exit status ready, and it gives back the whole
\* buffer; while it runs the buffer's tail is not the prompt, whatever the
\* buffer holds before its tail.
C17_LiteralTermination ==
    /\ [](LiteralCall =>
            /\ (pc = "rtp" /\ recvd) => ~EndsWithPrompt(buf)
            /\ pc = "done" =>
                  /\ ret = buf
                  /\ rtpEnd = "prompt" => EndsWithPrompt(buf)
                  /\ rtpEnd = "closed" => (eof /\ exitReady /\ ~EndsWithPrompt(buf))
                  /\ rtpEnd \in {"prompt", "closed"})
    /\ [][(LiteralCall /\ pc = "rtp" /\ eof' = eof /\ exitReady' = exitReady
              /\ Len(wire') <= Len(wire)) =>
            /\ buf' = buf \o Normalize(SubSeq(wire, 1, Len(wire) - Len(wire')))
            /\ pc' = "done" =>
                  \/ EndsWithPrompt(buf')
                  \/ wire = <<>> /\ buf' = buf /\ exitReady]_vars

C17_Witness ==
    /\ LiteralCall
    /\ pc = "done"
    /\ rtpEnd = "prompt"
    /\ ret = <<"a", "$", "a", "$">>

\* the text after the first line, empty if no line is complete
AfterFirstLine(b) ==
    IF Contains(b, NL) THEN PySliceFrom(b, Len(FirstLine(b)) + 1) ELSE <<>>

\* the lines of the text, the unterminated last one included
AllLines(b) ==
    CompleteLines(b) \o
        (IF LastNewline(b) < Len(b) THEN <<PySliceFrom(b, LastNewline(b))>> ELSE <<>>)

\* what the call received, without the prompt it ended on
Received ==
    IF rtpEnd = "prompt" THEN SubSeq(buf, 1, PromptStart(buf, regex)) ELSE buf

\* C18: when read_to_prompt has returned with a sink, on the prompt or on a
\* closed channel, the sink has been given every line received after the
\* first one, the unterminated last line included, the prompt left out.
C18_NothingLostOnSink ==
    (ReadCall /\ sinkOn /\ pc = "done" /\ Contains(Received, NL)) =>
        sinkLog = AllLines(AfterFirstLine(Received))

\* a round trip's read loop has ended on the prompt and nothing was sent since
RoundTripEnded ==
    /\ op \in {"exec_command", "command_and_retval"}
    /\ pc \in {"ec_slice", "cr_second", "cr_int", "done"}
    /\ error = "none"
    /\ rtpEnd = "prompt"

\* the round trip's result is in ret: exec_command has cut echo and prompt off
ResultInRet ==
    \/ pc \in {"cr_second", "cr_int"}
    \/ pc = "done" /\ op = "exec_command"

\* the answer to the last command holds the prompt at its end and nowhere else
UniquePrompt == PromptOnlyAtEnd(resp.cmd \o resp.eol \o resp.out \o Prompt)

\* C19 as stated: whenever a round trip has ended on the prompt, nothing of
\* what the remote wrote is left unread on the channel.
C19_NoBytesLeftOver ==
    RoundTripEnded => wire = <<>>

\* C19: an exec_command that returns has sent one line, the command and "\n",
\* and then run one read loop; a round trip that began with nothing unread on
\* the channel and whose answer holds the prompt only at its end has, when
\* its loop ends on the prompt, read every byte: nothing is left for the next
\* round trip, its result has the characters of its own output and no others
\* (line endings apart), and the exit code of command_and_retval is the number
\* the remote wrote in answer to "echo $?".
C19_CleanRoundTrips ==
    /\ (op = "exec_command" /\ pc = "done" /\ error = "none") =>
          ioLog = <<IoSend(args.cmd \o <<NL>>), IoRead(args.sink), IoRet>>
    /\ (RoundTripEnded /\ resp.clean /\ UniquePrompt) =>
          /\ wire = <<>>
          /\ ResultInRet => Letters(ret) = Letters(resp.out)
          /\ (pc = "done" /\ op = "command_and_retval") =>
                /\ resp.cmd = EchoStatus
                /\ resp.out[1] = "0" => retcode = 0
                /\ resp.out[1] = "1" => retcode = 1
                /\ resp.out[1] \in {"0", "1"}

C19_Witness ==
    /\ op = "command_and_retval"
    /\ pc = "done"
    /\ error = "none"
    /\ rtpEnd = "prompt"
    /\ resp.clean
    /\ resp.out = <<"1", NL>>
    /\ retcode = 1
    /\ ret = <<"$", NL>>
    /\ wire = <<>>

\* an exec call (made directly or by exec0) on an interactive machine
AskedCall == op \in {"exec", "exec0"} /\ interactive /\ inputs # <<>>

\* the answer begins with "y" or "Y"
StartsWithYes(answer) == answer # <<>> /\ answer[1] \in {"y", "Y"}

\* C20 as stated, with the empty answer treated as the confirmation surface
\* says (skipped): the command is dispatched exactly when the answer begins
\* with "y" or "Y".
C20_SkippedUnlessYes ==
    AskedCall => (dispatched <=> StartsWithYes(inputs[1]))

\* C20: on an interactive machine one line is read and the command is
\* skipped exactly when the answer is not empty and begins with something
\* other than "y" or "Y"; an empty answer or one beginning with "y" or "Y"
\* lets it be dispatched.  On a machine that is not interactive no input is
\* read and the command is dispatched.
C20_SkippedOnExplicitNo ==
    op \in {"exec", "exec0"} =>
        /\ interactive =>
              /\ Len(inputs) = 1
              /\ dispatched <=> (inputs[1] = <<>> \/ StartsWithYes(inputs[1]))
              /\ ~dispatched => (messages = 1 /\ events = <<>> /\ ioLog = <<>>)
        /\ ~interactive => (inputs = <<>> /\ dispatched)
        /\ dispatched => (messages = 0 /\ Len(events) = 1)

C20_Witness ==
    /\ op = "exec"
    /\ interactive
    /\ inputs = << <<>> >>
    /\ dispatched
    /\ pc = "done"
    /\ error = "none"
    /\ ioLog # <<>>

====
